---- MODULE Spec2Model ----
(***************************************************************************)
(* GraphRunnableTask (core/dbt/task/runnable.py): the driver that pulls    *)
(* nodes from the graph queue, dispatches them to a thread pool (or runs   *)
(* them inline), handles their results, propagates skips, stages fatal     *)
(* errors in _raise_next_tick and cancels on fail-fast or interrupt; and   *)
(* create_schemas, the two phase schema provisioner run before it.         *)
(***************************************************************************)
EXTENDS Integers, FiniteSets, Sequences, TLC

\* ---------------------------------------------------------------- bounds
MaxNodes == 3
NumThreads == 2

Nodes == 1..MaxNodes

\* the null cause / null reference of the Python code
None == 0

VARIABLES
    \* inputs of the run: the manifest graph, the selection, the flags
    deps,              \* deps[n]: the nodes n directly depends on (full graph)
    selected,          \* selected node ids
    ephemeral,         \* nodes with is_ephemeral_model
    fail_fast,         \* config.args.fail_fast
    single_threaded,   \* config.args.single_threaded
    raise_first,       \* what raise_on_first_error() returns for this task
    relation,          \* relation[n]: <<database, schema>> node n builds
    refable,           \* nodes with is_refable
    \* fields of GraphRunnableTask
    job_queue,         \* FALSE: job_queue is None, TRUE: a GraphQueue
    run_count,
    num_nodes,
    node_results,      \* sequence of Results
    skipped_children,  \* _skipped_children: function node id -> cause
    raise_next_tick,   \* _raise_next_tick, NoError when None
    \* GraphQueue
    taken,             \* nodes returned by get() (in progress or done)
    marks,             \* marks[n]: number of mark_done(n) calls
    seen,              \* completions seen by wait_until_something_was_done
    \* thread pool
    pool,              \* submitted runners: records with a state st
    finished,          \* results put by workers, callback not yet run
    \* create_schemas
    required,          \* required_schemas: <<database, schema>> pairs
    listed,            \* databases whose list_schemas future was consumed
    listing,           \* the lower-cased tuples the listings returned
    existing,          \* existing_schemas_lowered
    searched,          \* pairs of required_schemas.search() already visited
    created,           \* create_schema calls submitted, in order
    \* driver
    pc,
    cur,               \* node returned by the last get()
    exc,               \* the exception that is propagating / was raised
    cancel,            \* steps of _cancel_connections done so far
    \* history
    dispatched,        \* nodes handed to _submit
    ran,               \* ran[n]: the Result call_runner returned for n
    fatal_checked      \* a _raise_set_error ran while a fatal Result existed

vars == <<deps, selected, ephemeral, fail_fast, single_threaded, raise_first,
          relation, refable, required, listed, listing, existing, searched,
          created, job_queue, run_count, num_nodes, node_results, skipped_children,
          raise_next_tick, taken, marks, seen, pool, finished, pc, cur, exc,
          cancel, dispatched, ran, fatal_checked>>

inputs == <<deps, selected, ephemeral, fail_fast, single_threaded, raise_first,
            relation, refable>>
schemas == <<required, listed, listing, existing, searched, created>>
queue == <<taken, marks, seen>>
history == <<dispatched, ran, fatal_checked>>

\* ------------------------------------------------------------ the graph
RECURSIVE Ancestors(_, _)
\* every node n depends on, directly or through other nodes (full graph)
Ancestors(d, n) ==
    d[n] \cup UNION {Ancestors(d, m) : m \in d[n]}

\* Linker.get_dependent_nodes: every transitive dependent in the full graph
GetDependentNodes(d, n) == {m \in Nodes : n \in Ancestors(d, m)}

\* the dependencies the queue counts for n: those in the selected set
QueueDeps(d, sel, n) == Ancestors(d, n) \cap sel

\* ---------------------------------------------------------- GraphQueue
Done == {n \in Nodes : marks[n] > 0}

\* the ready set: selected, not yet handed out, no remaining dependency
Ready == {n \in selected \ taken : QueueDeps(deps, selected, n) \subseteq Done}

\* GraphQueue.empty(): no node remains to be dispatched
Empty == selected \subseteq taken

\* number of selected nodes not marked done
Unfinished == Cardinality(selected \ Done)

Completions == Cardinality(Done)

\* GraphQueue.mark_done
MarkDone(m, n) == [m EXCEPT ![n] = IF @ < 2 THEN @ + 1 ELSE @]

\* ------------------------------------------------------------- results
NoError == [exc |-> "None", node |-> None]

Result(n, status, cause) == [node |-> n, status |-> status, cause |-> cause]

\* result.error is not None / result.fail is not None
HasError(r) == r.status = "error"
HasFail(r) == r.status = "fail"

Outcomes == {"success", "error", "fail"}

\* runner.run_with_hooks: a skipped runner yields a skipped Result with its
\* cause, any other runner executes the node
RunWithHooks(t, outcome) ==
    IF t.skip THEN Result(t.node, "skipped", t.cause)
    ELSE Result(t.node, outcome, None)

\* call_runner with the two tests in the other order
FatalSignal_RaiseFirstTested(cell, r) ==
    IF HasError(r) /\ raise_first
        THEN [exc |-> "RuntimeException", node |-> r.node]
    ELSE IF (HasFail(r) \/ HasError(r)) /\ fail_fast
        THEN [exc |-> "FailFastException", node |-> r.node]
    ELSE cell

\* call_runner that leaves a cell already set alone
FatalSignal_FirstWins(cell, r) ==
    IF cell.exc # "None" THEN cell
    ELSE IF (HasFail(r) \/ HasError(r)) /\ fail_fast
        THEN [exc |-> "FailFastException", node |-> r.node]
    ELSE IF HasError(r) /\ raise_first
        THEN [exc |-> "RuntimeException", node |-> r.node]
    ELSE cell

\* call_runner, lines 174-186: the value of _raise_next_tick after the call
FatalSignal(cell, r) ==
    IF (HasFail(r) \/ HasError(r)) /\ fail_fast
        THEN [exc |-> "FailFastException", node |-> r.node]
    ELSE IF HasError(r) /\ raise_first
        THEN [exc |-> "RuntimeException", node |-> r.node]
    ELSE cell

\* _handle_result, lines 271-275: the cause handed to the dependents
SkipCause(r) == IF r.node \in ephemeral THEN r.node ELSE None

\* _mark_dependent_errors that keeps a cause already recorded
MarkDependentErrors_FirstWins(sk, n, cause) ==
    [m \in DOMAIN sk \cup GetDependentNodes(deps, n) |->
        IF m \in DOMAIN sk THEN sk[m] ELSE cause]

\* _mark_dependent_errors over the direct dependents only
MarkDependentErrors_DirectOnly(sk, n, cause) ==
    [m \in DOMAIN sk \cup {x \in Nodes : n \in deps[x]} |->
        IF n \in deps[m] THEN cause ELSE sk[m]]

\* _mark_dependent_errors
MarkDependentErrors(sk, n, cause) ==
    [m \in DOMAIN sk \cup GetDependentNodes(deps, n) |->
        IF m \in GetDependentNodes(deps, n) THEN cause ELSE sk[m]]

\* _handle_result that records no Result for a skipped node
HandleResultResults_DropSkipped(res, r) ==
    IF r.node \in ephemeral \/ r.status = "skipped" THEN res
    ELSE Append(res, r)

\* _handle_result without the ephemeral test
HandleResultResults_AppendAll(res, r) == Append(res, r)

\* _handle_result: the Result sequence afterwards
HandleResultResults(res, r) ==
    IF r.node \in ephemeral THEN res ELSE Append(res, r)

\* _handle_result: the Skip-Cause Map afterwards
HandleResultSkips(sk, r) ==
    IF HasError(r) THEN MarkDependentErrors(sk, r.node, SkipCause(r)) ELSE sk

\* the callback without the mark_done its docstring asks for
CallbackEffect_NoMarkDone(r) ==
    /\ node_results' = HandleResultResults(node_results, r)
    /\ skipped_children' = HandleResultSkips(skipped_children, r)
    /\ marks' = marks

\* the callback with a second mark_done for a skipped node
CallbackEffect_SkipMarkedTwice(r) ==
    /\ node_results' = HandleResultResults(node_results, r)
    /\ skipped_children' = HandleResultSkips(skipped_children, r)
    /\ marks' = IF r.status = "skipped"
                   THEN MarkDone(MarkDone(marks, r.node), r.node)
                   ELSE MarkDone(marks, r.node)

\* run_queue.callback: _handle_result, then mark_done
CallbackEffect(r) ==
    /\ node_results' = HandleResultResults(node_results, r)
    /\ skipped_children' = HandleResultSkips(skipped_children, r)
    /\ marks' = MarkDone(marks, r.node)

\* get_runner without the ephemeral branch
GetRunner_EphemeralCounted(n) ==
    [index |-> run_count + 1, total |-> num_nodes, run_count |-> run_count + 1]

\* get_runner: the index and total handed to the runner, and run_count after
GetRunner(n) ==
    IF n \in ephemeral
        THEN [index |-> 0, total |-> 0, run_count |-> run_count]
        ELSE [index |-> run_count + 1, total |-> num_nodes,
              run_count |-> run_count + 1]

\* the runner built without consulting the Skip-Cause Map
MakeRunner_NoSkip(n) ==
    [node |-> n,
     index |-> GetRunner(n).index,
     total |-> GetRunner(n).total,
     skip |-> FALSE,
     cause |-> None,
     st |-> "queued"]

\* run_queue lines 231-237: the runner built for node n, skipped if the
\* Skip-Cause Map holds n
MakeRunner(n) ==
    [node |-> n,
     index |-> GetRunner(n).index,
     total |-> GetRunner(n).total,
     skip |-> n \in DOMAIN skipped_children,
     cause |-> IF n \in DOMAIN skipped_children THEN skipped_children[n]
               ELSE None,
     st |-> "queued"]

PopSkip(sk, n) == [m \in DOMAIN sk \ {n} |-> sk[m]]

\* where a raised exception goes in execute_nodes
Handler(e) ==
    IF e.exc \in {"FailFastException", "KeyboardInterrupt"} THEN "except"
    ELSE "raised"

\* fail-fast mode and some Result is an error or a fail
FatalSeen == fail_fast /\ \E n \in Nodes : ran[n].status \in {"error", "fail"}

\* _raise_set_error at a point of the driver
RaiseSetError(next) ==
    /\ fatal_checked' = (fatal_checked \/ FatalSeen)
    /\ IF raise_next_tick # NoError
          THEN /\ exc' = raise_next_tick
               /\ pc' = Handler(raise_next_tick)
          ELSE /\ pc' = next
               /\ UNCHANGED exc

\* -------------------------------------------------------- create_schemas
\* a schema that is None
NoSchema == "<None>"

\* str.lower() on the names of the model
Lower(s) ==
    CASE s = "DB" -> "db"
      [] s = "S1" -> "s1"
      [] s = "S2" -> "s2"
      [] OTHER -> s

\* lines 493-495: lower_schema stays None for a None schema
LowerSchema(s) == IF s = NoSchema THEN NoSchema ELSE Lower(s)

\* line 497: db_schema = (db.lower(), lower_schema)
DbSchema(p) == <<Lower(p[1]), LowerSchema(p[2])>>

\* get_model_schemas: the relations of the selected, refable, non-ephemeral
\* nodes, case preserved
GetModelSchemas ==
    {relation[n] : n \in (selected \cap refable) \ ephemeral}

\* required_databases: one information schema per database of the map
RequiredDatabases(req) == {p[1] : p \in req}

\* list_schemas: the lower-cased tuples of what the adapter lists for db
ListSchemasResult(db, names) ==
    {<<Lower(db), Lower(s)>> : s \in names \ {NoSchema}}

\* what adapter.list_schemas may return
ListUniverse == {"S1", "s2", NoSchema}

Pairs == {<<"db", "s1">>, <<"db", "S1">>, <<"DB", "s1">>, <<"db", "s2">>,
          <<"db", NoSchema>>}

\* the relation of each node in the runs of the scheduler
DefaultRelation ==
    [n \in Nodes |-> IF n = 1 THEN <<"db", "s1">>
                     ELSE IF n = 2 THEN <<"db", "S1">>
                     ELSE <<"DB", "s2">>]

\* ----------------------------------------------------------------- Init
DAGs == {d \in [Nodes -> SUBSET Nodes] : \A n \in Nodes : d[n] \subseteq 1..(n-1)}

AtMostOne(S) == \A a, b \in S : a = b

\* the fields after __init__, nothing running
InitObject ==
    /\ required = {}
    /\ listed = {}
    /\ listing = {}
    /\ existing = {}
    /\ searched = {}
    /\ created = <<>>
    /\ job_queue = FALSE
    /\ run_count = 0
    /\ num_nodes = 0
    /\ node_results = <<>>
    /\ skipped_children = <<>>
    /\ raise_next_tick = NoError
    /\ taken = {}
    /\ marks = [n \in Nodes |-> 0]
    /\ seen = 0
    /\ pool = {}
    /\ finished = {}
    /\ pc = "new"
    /\ cur = None
    /\ exc = NoError
    /\ cancel = {}
    /\ dispatched = {}
    /\ ran = [n \in Nodes |-> Result(n, "none", None)]
    /\ fatal_checked = FALSE

Init ==
    /\ deps \in DAGs
    /\ selected \in {s \in SUBSET Nodes : AtMostOne(Nodes \ s)}
    /\ ephemeral \in {e \in SUBSET Nodes : AtMostOne(e)}
    /\ fail_fast \in BOOLEAN
    /\ single_threaded \in BOOLEAN
    /\ raise_first \in BOOLEAN
    /\ relation = DefaultRelation
    /\ refable = Nodes
    /\ InitObject

\* -------------------------------------------------------------- actions
\* run(): _runtime_initialize builds the queue and counts the nodes; with
\* nothing selected it returns an empty result at once
Run ==
    /\ pc = "new"
    /\ job_queue' = TRUE
    /\ num_nodes' = Cardinality(selected \ ephemeral)
    /\ pc' = IF selected = {} THEN "returned" ELSE "before_run"
    /\ UNCHANGED <<inputs, schemas, run_count, node_results, skipped_children,
                   raise_next_tick, queue, pool, finished, cur, exc, cancel,
                   history>>

\* before_run -> create_schemas: get_model_schemas builds the required map
\* and one list_schemas future per required database is submitted
CreateSchemas ==
    /\ pc = "before_run"
    /\ required' = GetModelSchemas
    /\ pc' = "list_schemas"
    /\ UNCHANGED <<inputs, listed, listing, existing, searched, created,
                   job_queue, run_count, num_nodes, node_results,
                   skipped_children, raise_next_tick, queue, pool, finished,
                   cur, exc, cancel, history>>

\* for ls_future in as_completed(list_futures): the result of one listing is
\* added to existing_schemas_lowered, or its error is re-raised
ListSchemas ==
    /\ pc = "list_schemas"
    /\ \E db \in RequiredDatabases(required) \ listed :
        /\ listed' = listed \cup {db}
        /\ \/ /\ \E names \in SUBSET ListUniverse :
                  /\ existing' = existing \cup ListSchemasResult(db, names)
                  /\ listing' = listing \cup ListSchemasResult(db, names)
              /\ UNCHANGED <<pc, exc>>
           \/ /\ exc' = [exc |-> "ListError", node |-> None]
              /\ pc' = "raised"
              /\ UNCHANGED <<existing, listing>>
    /\ UNCHANGED <<inputs, required, searched, created, job_queue, run_count,
                   num_nodes, node_results, skipped_children, raise_next_tick,
                   queue, pool, finished, cur, cancel, history>>

\* the search loop started without waiting for the list_schemas futures
CreateSchema_ListingsNotAwaited ==
    /\ pc = "list_schemas"
    /\ \E p \in required \ searched :
        /\ searched' = searched \cup {p}
        /\ IF DbSchema(p) \notin existing
              THEN /\ existing' = existing \cup {DbSchema(p)}
                   /\ created' = Append(created, p)
              ELSE UNCHANGED <<existing, created>>
    /\ UNCHANGED <<inputs, required, listed, listing, job_queue, run_count,
                   num_nodes, node_results, skipped_children, raise_next_tick,
                   queue, pool, finished, pc, cur, exc, cancel, history>>

\* the search loop without line 499, the add to existing_schemas_lowered
CreateSchema_NoAdd ==
    /\ pc = "list_schemas"
    /\ RequiredDatabases(required) \subseteq listed
    /\ \E p \in required \ searched :
        /\ searched' = searched \cup {p}
        /\ IF DbSchema(p) \notin existing
              THEN created' = Append(created, p)
              ELSE UNCHANGED created
    /\ UNCHANGED <<inputs, required, listed, listing, existing, job_queue,
                   run_count, num_nodes, node_results, skipped_children,
                   raise_next_tick, queue, pool, finished, pc, cur, exc,
                   cancel, history>>

\* for info, schema in required_schemas.search(): one pair is visited and a
\* create_schema is submitted for it unless its lower-cased form is known
CreateSchema ==
    /\ pc = "list_schemas"
    /\ RequiredDatabases(required) \subseteq listed
    /\ \E p \in required \ searched :
        /\ searched' = searched \cup {p}
        /\ IF DbSchema(p) \notin existing
              THEN /\ existing' = existing \cup {DbSchema(p)}
                   /\ created' = Append(created, p)
              ELSE UNCHANGED <<existing, created>>
    /\ UNCHANGED <<inputs, required, listed, listing, job_queue, run_count,
                   num_nodes, node_results, skipped_children, raise_next_tick,
                   queue, pool, finished, pc, cur, exc, cancel, history>>

\* the search loop is over: the create futures are awaited
AwaitCreates ==
    /\ pc = "list_schemas"
    /\ RequiredDatabases(required) \subseteq listed
    /\ searched = required
    /\ pc' = "create_wait"
    /\ UNCHANGED <<inputs, schemas, job_queue, run_count, num_nodes,
                   node_results, skipped_children, raise_next_tick, queue,
                   pool, finished, cur, exc, cancel, history>>

\* for create_future in as_completed(create_futures): every creation
\* succeeded and create_schemas returns, or one raised and its error leaves
CreatesDone ==
    /\ pc = "create_wait"
    /\ \/ /\ pc' = "run_queue"
          /\ UNCHANGED exc
       \/ /\ created # <<>>
          /\ exc' = [exc |-> "CreateError", node |-> None]
          /\ pc' = "raised"
    /\ required' = {}
    /\ listed' = {}
    /\ listing' = {}
    /\ existing' = {}
    /\ searched' = {}
    /\ created' = <<>>
    /\ UNCHANGED <<inputs, job_queue, run_count, num_nodes, node_results,
                   skipped_children, raise_next_tick, queue, pool, finished,
                   cur, cancel, history>>

\* run_queue without the test of job_queue: it goes on to its loop
RunQueueNoQueue_NoTest ==
    /\ pc = "new"
    /\ job_queue = FALSE
    /\ pc' = "loop"
    /\ UNCHANGED <<inputs, schemas, job_queue, run_count, num_nodes, node_results,
                   skipped_children, raise_next_tick, queue, pool, finished,
                   cur, exc, cancel, history>>

\* run_queue called with job_queue None
RunQueueNoQueue ==
    /\ pc = "new"
    /\ job_queue = FALSE
    /\ exc' = [exc |-> "InternalException", node |-> None]
    /\ pc' = "raised"
    /\ UNCHANGED <<inputs, schemas, job_queue, run_count, num_nodes, node_results,
                   skipped_children, raise_next_tick, queue, pool, finished,
                   cur, cancel, history>>

\* execute_nodes calls run_queue; the queue is set
RunQueue ==
    /\ pc = "run_queue"
    /\ job_queue
    /\ pc' = "loop"
    /\ UNCHANGED <<inputs, schemas, job_queue, run_count, num_nodes, node_results,
                   skipped_children, raise_next_tick, queue, pool, finished,
                   cur, exc, cancel, history>>

\* while not job_queue.empty(): node = job_queue.get()
Get ==
    /\ pc = "loop"
    /\ ~Empty
    /\ \E n \in Ready :
        /\ taken' = taken \cup {n}
        /\ cur' = n
    /\ pc' = "got"
    /\ UNCHANGED <<inputs, schemas, job_queue, run_count, num_nodes, node_results,
                   skipped_children, raise_next_tick, marks, seen, pool,
                   finished, exc, cancel, history>>

\* the check after get() left out: the driver goes on to get_runner
Check_NoRaise ==
    /\ pc = "got"
    /\ fatal_checked' = (fatal_checked \/ FatalSeen)
    /\ pc' = "checked"
    /\ UNCHANGED <<inputs, schemas, job_queue, run_count, num_nodes,
                   node_results, skipped_children, raise_next_tick, queue,
                   pool, finished, cur, exc, cancel, dispatched, ran>>

\* the _raise_set_error that follows get()
Check ==
    /\ pc = "got"
    /\ RaiseSetError("checked")
    /\ UNCHANGED <<inputs, schemas, job_queue, run_count, num_nodes, node_results,
                   skipped_children, raise_next_tick, queue, pool, finished,
                   cur, cancel, dispatched, ran>>

\* Submit with mark_done called when the runner is submitted instead of
\* in the callback
Submit_MarkDoneAtSubmit ==
    /\ pc = "checked"
    /\ ~single_threaded
    /\ run_count' = GetRunner(cur).run_count
    /\ skipped_children' = PopSkip(skipped_children, cur)
    /\ pool' = pool \cup {MakeRunner(cur)}
    /\ dispatched' = dispatched \cup {cur}
    /\ marks' = MarkDone(marks, cur)
    /\ pc' = "loop"
    /\ cur' = None
    /\ UNCHANGED <<inputs, schemas, job_queue, num_nodes, node_results,
                   raise_next_tick, taken, seen, finished, exc, cancel, ran,
                   fatal_checked>>

\* get_runner, the skip decision and _submit to the pool
Submit ==
    /\ pc = "checked"
    /\ ~single_threaded
    /\ run_count' = GetRunner(cur).run_count
    /\ skipped_children' = PopSkip(skipped_children, cur)
    /\ pool' = pool \cup {MakeRunner(cur)}
    /\ dispatched' = dispatched \cup {cur}
    /\ pc' = "loop"
    /\ cur' = None
    /\ UNCHANGED <<inputs, schemas, job_queue, num_nodes, node_results,
                   raise_next_tick, queue, finished, exc, cancel, ran,
                   fatal_checked>>

\* get_runner, the skip decision and _submit in single-threaded mode:
\* call_runner and the callback run inline on the driver thread
SubmitInline ==
    /\ pc = "checked"
    /\ single_threaded
    /\ run_count' = GetRunner(cur).run_count
    /\ dispatched' = dispatched \cup {cur}
    /\ \E o \in Outcomes :
        LET r == RunWithHooks(MakeRunner(cur), o) IN
        /\ ran' = [ran EXCEPT ![cur] = r]
        /\ raise_next_tick' = FatalSignal(raise_next_tick, r)
        /\ node_results' = HandleResultResults(node_results, r)
        /\ skipped_children' =
               HandleResultSkips(PopSkip(skipped_children, cur), r)
        /\ marks' = MarkDone(marks, r.node)
    /\ pc' = "loop"
    /\ cur' = None
    /\ UNCHANGED <<inputs, schemas, job_queue, num_nodes, taken, seen, pool,
                   finished, exc, cancel, fatal_checked>>

\* run_queue without the _raise_set_error that follows join()
Join_NoFinalCheck ==
    /\ pc = "loop"
    /\ Empty
    /\ ~fail_fast
    /\ Unfinished = 0
    /\ pc' = "returned"
    /\ UNCHANGED <<inputs, schemas, job_queue, run_count, num_nodes, node_results,
                   skipped_children, raise_next_tick, queue, pool, finished,
                   cur, exc, cancel, history>>

\* the loop ends: job_queue.join(), then the last _raise_set_error
Join ==
    /\ pc = "loop"
    /\ Empty
    /\ ~fail_fast
    /\ Unfinished = 0
    /\ RaiseSetError("returned")
    /\ UNCHANGED <<inputs, schemas, job_queue, run_count, num_nodes, node_results,
                   skipped_children, raise_next_tick, queue, pool, finished,
                   cur, cancel, dispatched, ran>>

\* the loop ends in fail-fast mode: one wake of
\* wait_until_something_was_done and the _raise_set_error after it
WaitUntilSomethingWasDone ==
    /\ pc = "loop"
    /\ Empty
    /\ fail_fast
    /\ Completions > seen \/ Unfinished = 0
    /\ seen' = Completions
    /\ RaiseSetError(IF Unfinished = 0 THEN "returned" ELSE "loop")
    /\ UNCHANGED <<inputs, schemas, job_queue, run_count, num_nodes, node_results,
                   skipped_children, raise_next_tick, taken, marks, pool,
                   finished, cur, cancel, dispatched, ran>>

\* KeyboardInterrupt delivered to the driver thread inside run_queue
Interrupt ==
    /\ pc \in {"loop", "got", "checked"}
    /\ exc' = [exc |-> "KeyboardInterrupt", node |-> None]
    /\ pc' = "except"
    /\ UNCHANGED <<inputs, schemas, job_queue, run_count, num_nodes, node_results,
                   skipped_children, raise_next_tick, queue, pool, finished,
                   cur, cancel, history>>

\* _cancel_connections whose bare raise finds no exception being handled:
\* the interpreter raises a RuntimeError of its own in place of the cause
CancelConnections_BareRaiseFails ==
    /\ pc = "except"
    /\ pool' = {t \in pool : t.st = "running"}
    /\ finished' = {}
    /\ \E cancelable \in BOOLEAN :
        IF cancelable
           THEN /\ cancel' = {"close", "terminate", "cancel_open_connections"}
                /\ pc' = "pool_join"
                /\ UNCHANGED exc
           ELSE /\ cancel' = {"close", "terminate", "warning"}
                /\ pc' = "raised"
                /\ exc' = [exc |-> "RuntimeError", node |-> None]
    /\ UNCHANGED <<inputs, schemas, job_queue, run_count, num_nodes, node_results,
                   skipped_children, raise_next_tick, queue, cur, history>>

\* _cancel_connections up to the adapter: pool.close(), pool.terminate(),
\* is_cancelable(); a backend that cannot cancel re-raises at once
CancelConnections ==
    /\ pc = "except"
    /\ pool' = {t \in pool : t.st = "running"}
    /\ finished' = {}
    /\ \E cancelable \in BOOLEAN :
        IF cancelable
           THEN /\ cancel' = {"close", "terminate", "cancel_open_connections"}
                /\ pc' = "pool_join"
           ELSE /\ cancel' = {"close", "terminate", "warning"}
                /\ pc' = "raised"
    /\ UNCHANGED <<inputs, schemas, job_queue, run_count, num_nodes, node_results,
                   skipped_children, raise_next_tick, queue, cur, exc,
                   history>>

\* _cancel_connections: pool.join() returns once the workers have exited,
\* then execute_nodes re-raises
PoolJoin ==
    /\ pc = "pool_join"
    /\ pool = {}
    /\ cancel' = cancel \cup {"join"}
    /\ pc' = "raised"
    /\ UNCHANGED <<inputs, schemas, job_queue, run_count, num_nodes, node_results,
                   skipped_children, raise_next_tick, queue, pool, finished,
                   cur, exc, history>>

\* a free worker thread takes a submitted runner
Start(t) ==
    /\ t \in pool
    /\ t.st = "queued"
    /\ "terminate" \notin cancel
    /\ Cardinality({u \in pool : u.st = "running"}) < NumThreads
    /\ pool' = (pool \ {t}) \cup {[t EXCEPT !.st = "running"]}
    /\ UNCHANGED <<inputs, schemas, job_queue, run_count, num_nodes, node_results,
                   skipped_children, raise_next_tick, queue, finished, pc,
                   cur, exc, cancel, history>>

\* call_runner on a worker thread: run the node, stage a fatal error, hand
\* the result to the pool's result handler (dropped after terminate)
CallRunner(t) ==
    /\ t \in pool
    /\ t.st = "running"
    /\ \E o \in Outcomes :
        LET r == RunWithHooks(t, o) IN
        /\ ran' = [ran EXCEPT ![t.node] = r]
        /\ raise_next_tick' = FatalSignal(raise_next_tick, r)
        /\ finished' = IF "terminate" \in cancel THEN finished
                       ELSE finished \cup {r}
    /\ pool' = pool \ {t}
    /\ UNCHANGED <<inputs, schemas, job_queue, run_count, num_nodes, node_results,
                   skipped_children, queue, pc, cur, exc, cancel, dispatched,
                   fatal_checked>>

\* the pool's result handler thread runs the callback of one result
Callback(r) ==
    /\ r \in finished
    /\ finished' = finished \ {r}
    /\ CallbackEffect(r)
    /\ UNCHANGED <<inputs, schemas, job_queue, run_count, num_nodes, raise_next_tick,
                   taken, seen, pool, pc, cur, exc, cancel, history>>

Workers ==
    \/ \E t \in pool : Start(t)
    \/ \E t \in pool : CallRunner(t)
    \/ \E r \in finished : Callback(r)

Next ==
    \/ Run
    \/ CreateSchemas
    \/ ListSchemas
    \/ CreateSchema
    \/ AwaitCreates
    \/ CreatesDone
    \/ RunQueueNoQueue
    \/ RunQueue
    \/ Get
    \/ Check
    \/ Submit
    \/ SubmitInline
    \/ Join
    \/ WaitUntilSomethingWasDone
    \/ Interrupt
    \/ CancelConnections
    \/ PoolJoin
    \/ Workers

Spec == Init /\ [][Next]_vars

\* the steps of the driver thread, the interrupt apart
Driver ==
    \/ Run
    \/ CreateSchemas
    \/ ListSchemas
    \/ CreateSchema
    \/ AwaitCreates
    \/ CreatesDone
    \/ RunQueueNoQueue
    \/ RunQueue
    \/ Get
    \/ Check
    \/ Submit
    \/ SubmitInline
    \/ Join
    \/ WaitUntilSomethingWasDone
    \/ CancelConnections
    \/ PoolJoin

\* the threads of the run keep running: the driver takes its next step when
\* it is not blocked, a free worker takes a submitted runner, a runner that
\* was started returns its Result, and the result handler of the pool runs
\* the callback of a Result it holds
Fairness ==
    /\ WF_vars(Driver)
    /\ WF_vars(\E t \in pool : Start(t))
    /\ WF_vars(\E t \in pool : CallRunner(t))
    /\ WF_vars(\E r \in finished : Callback(r))

SpecLive == Spec /\ Fairness

\* create_schemas alone, over every assignment of relations to the nodes
InitSchemas ==
    /\ deps = [n \in Nodes |-> {}]
    /\ selected \in {s \in SUBSET Nodes : AtMostOne(Nodes \ s)}
    /\ ephemeral \in {e \in SUBSET Nodes : AtMostOne(e)}
    /\ fail_fast = FALSE
    /\ single_threaded = FALSE
    /\ raise_first = FALSE
    /\ relation \in [Nodes -> Pairs]
    /\ refable \in {r \in SUBSET Nodes : AtMostOne(Nodes \ r)}
    /\ InitObject

NextSchemas ==
    \/ Run
    \/ CreateSchemas
    \/ ListSchemas
    \/ CreateSchema
    \/ AwaitCreates
    \/ CreatesDone

SpecSchemas == InitSchemas /\ [][NextSchemas]_vars

\* ================================================================ claims
HasResult(n) == \E i \in 1..Len(node_results) : node_results[i].node = n

Skipped(n) == ran[n].status = "skipped"
Executed(n) == ran[n].status \in Outcomes

\* C1: a node is dispatched (submitted to the pool or run inline) only when
\* every dependency of it in the selected set has completed: mark_done was
\* called for it and, unless it is ephemeral, its Result is recorded.
C1_DispatchAfterDependencies ==
    \A n \in dispatched : \A d \in QueueDeps(deps, selected, n) :
        /\ marks[d] > 0
        /\ d \notin ephemeral => HasResult(d)

\* C1 witness: in pool mode a node with a selected dependency is dispatched
C1_Witness ==
    /\ ~single_threaded
    /\ \E n \in dispatched : deps[n] \cap selected # {}

\* C2: mark_done is called at most once for a node, never for an unselected
\* node, and once run_queue has returned normally exactly once for every
\* selected node, skipped and ephemeral nodes included.
C2_MarkDoneExactlyOnce ==
    /\ \A n \in Nodes : marks[n] <= 1
    /\ \A n \in Nodes \ selected : marks[n] = 0
    /\ pc = "returned" => \A n \in selected : marks[n] = 1

\* C2 witness: a full run that had an ephemeral node and a skipped node
C2_Witness ==
    /\ pc = "returned"
    /\ selected \cap ephemeral # {}
    /\ \E n \in selected : Skipped(n)
    /\ \A n \in selected : marks[n] = 1

C4_NoDispatchAfterFatalCheck ==
    [][fatal_checked => dispatched' = dispatched]_vars

\* C4 witness: the fatal check has fired while runners dispatched earlier
\* are still in the pool
C4_Witness ==
    /\ fatal_checked
    /\ pool # {}
    /\ exc.exc = "FailFastException"

\* C5: no Result of an ephemeral node is in node_results, num_nodes and
\* run_count count non-ephemeral nodes only, and a node that depends on a
\* selected ephemeral node is dispatched only after mark_done of that node.
C5_EphemeralExcludedButGating ==
    /\ \A i \in 1..Len(node_results) : node_results[i].node \notin ephemeral
    /\ job_queue => num_nodes = Cardinality(selected \ ephemeral)
    /\ run_count = Cardinality(dispatched \ ephemeral)
    /\ run_count <= num_nodes
    /\ \A n \in dispatched :
          \A e \in Ancestors(deps, n) \cap selected \cap ephemeral :
              marks[e] > 0

\* C5 witness: an ephemeral node completed, a dependent of it was
\* dispatched and has its Result recorded
C5_Witness ==
    \E e \in selected \cap ephemeral : \E n \in dispatched :
        /\ e \in deps[n]
        /\ Executed(e)
        /\ HasResult(n)
        /\ ~HasResult(e)

\* the completion of node a in this step handled a Result that is an error
ErrorCompletion(a) == marks'[a] > marks[a] /\ ran'[a].status = "error"

CauseOf(a) == IF a \in ephemeral THEN a ELSE None

\* C6 as stated: a cause held by the Skip-Cause Map for a node is never
\* replaced by another cause.
C6_CauseNeverOverwritten ==
    [][\A n \in DOMAIN skipped_children \cap DOMAIN skipped_children' :
          skipped_children'[n] = skipped_children[n]]_vars

\* C6 amended: the last failing completion wins. Every completion whose
\* Result is an error sets the cause of each of its transitive dependents
\* to its own cause (its Result if it is ephemeral, null otherwise),
\* replacing a cause recorded before; a cause changes in no other way, and
\* an entry leaves the map only when its node is dispatched.
C6_LastFailingCompletionWins ==
    [][/\ \A a \in Nodes : ErrorCompletion(a) =>
              \A n \in GetDependentNodes(deps, a) :
                  /\ n \in DOMAIN skipped_children'
                  /\ skipped_children'[n] = CauseOf(a)
       /\ \A n \in DOMAIN skipped_children :
              \/ n \in DOMAIN skipped_children'
              \/ n \in dispatched' \ dispatched
       /\ \A n \in DOMAIN skipped_children \cap DOMAIN skipped_children' :
              skipped_children'[n] # skipped_children[n] =>
                  \E a \in Ancestors(deps, n) : ErrorCompletion(a)
      ]_vars

\* C6 witness: a dependent holds the cause of an ephemeral ancestor although
\* a completed non-ephemeral ancestor had recorded the null cause for it
C6_Witness ==
    \E d \in DOMAIN skipped_children : \E a \in Ancestors(deps, d) :
        /\ skipped_children[d] \in ephemeral
        /\ a \notin ephemeral
        /\ ran[a].status = "error"
        /\ marks[a] > 0

\* the Result r sets the Deferred-Error Cell under the flags of the run
Fatal(r) ==
    \/ fail_fast /\ r.status \in {"error", "fail"}
    \/ raise_first /\ r.status = "error"

SignalOf(n) ==
    [exc |-> IF fail_fast THEN "FailFastException" ELSE "RuntimeException",
     node |-> n]

\* C7 as stated: once set, _raise_next_tick is never overwritten.
C7_CellNeverOverwritten ==
    [][raise_next_tick # NoError => raise_next_tick' = raise_next_tick]_vars

\* C7 amended: once set, the cell is never cleared, but the last fatal
\* Result wins: every call_runner that returns a fatal Result sets the cell
\* to the error of that Result, overwriting an error set before, nothing
\* else changes the cell, and the driver raises what the cell holds at its
\* check.
C7_LastFatalWins ==
    [][/\ raise_next_tick # NoError => raise_next_tick' # NoError
       /\ \A n \in Nodes : (ran'[n] # ran[n] /\ Fatal(ran'[n])) =>
              raise_next_tick' = SignalOf(n)
       /\ raise_next_tick' # raise_next_tick =>
              \E n \in Nodes : ran'[n] # ran[n] /\ Fatal(ran'[n])
       /\ (exc' # exc /\ exc'.exc \in {"FailFastException", "RuntimeException"})
              => exc' = raise_next_tick
      ]_vars

\* C7 witness: two fatal Results exist before the driver has raised
C7_Witness ==
    /\ exc = NoError
    /\ \E n, m \in Nodes :
        /\ n # m
        /\ Fatal(ran[n])
        /\ Fatal(ran[m])
        /\ raise_next_tick = SignalOf(m)

\* the nodes with a Result, and those whose Result set the cell
WithResult == {n \in Nodes : ran[n].status # "none"}
FatalResults == {n \in WithResult : Fatal(ran[n])}

\* run_queue is over, by return or by an error of the cell
RunQueueOver ==
    \/ pc = "returned" /\ selected # {}
    \/ /\ pc \in {"except", "pool_join", "raised"}
       /\ exc.exc \in {"FailFastException", "RuntimeException"}

\* what a single-threaded run can produce: nodes run one after the other in
\* dependency order, each skipped exactly when a selected ancestor errored,
\* and nothing runs after the first fatal Result
SingleThreadedOutcome ==
    /\ WithResult \subseteq selected
    /\ \A n \in WithResult : QueueDeps(deps, selected, n) \subseteq WithResult
    /\ \A n \in WithResult :
          Skipped(n) <=> \E a \in QueueDeps(deps, selected, n) :
                              ran[a].status = "error"
    /\ Cardinality(FatalResults) <= 1
    /\ \A f \in FatalResults : GetDependentNodes(deps, f) \cap WithResult = {}
    /\ RunQueueOver =>
          \/ WithResult = selected /\ (FatalResults = {} <=> pc = "returned")
          \/ WithResult # selected /\ FatalResults # {} /\ pc # "returned"

CreatedAt(i) == DbSchema(created[i])

\* C9: a creation is submitted only for a required pair, never for a pair
\* whose lower-cased form was listed as existing, never twice for pairs
\* that are equal up to letter case, and once the search loop is over for
\* every required pair that was not listed.
C9_CreatesExactlyMissing ==
    /\ \A i \in 1..Len(created) :
          /\ created[i] \in required
          /\ CreatedAt(i) \notin listing
    /\ \A i, j \in 1..Len(created) : CreatedAt(i) = CreatedAt(j) => i = j
    /\ pc = "create_wait" =>
          \A p \in required : DbSchema(p) \notin listing =>
              \E i \in 1..Len(created) : CreatedAt(i) = DbSchema(p)

\* C9 witness: the loop is over; two nodes required pairs that differ only
\* by letter case, created once; another required pair existed and was not
\* created
C9_Witness ==
    /\ pc = "create_wait"
    /\ Len(created) = 1
    /\ \E n, m \in (selected \cap refable) \ ephemeral :
          /\ relation[n] # relation[m]
          /\ DbSchema(relation[n]) = DbSchema(relation[m])
          /\ DbSchema(relation[n]) \notin listing
    /\ \E r \in required : DbSchema(r) \in listing

\* C10: when an error of the cell (fail-fast abort or the runtime error of
\* raise_on_first_error) or an interrupt has left execute_nodes,
\* _cancel_connections has closed and terminated the pool.
C10_CancelBeforeErrorLeaves ==
    (pc = "raised" /\ exc.exc \in {"FailFastException", "RuntimeException",
                                     "KeyboardInterrupt"})
        => {"close", "terminate"} \subseteq cancel

\* the errors execute_nodes answers with a cancellation
Cancelling == {"FailFastException", "KeyboardInterrupt"}

\* C11: once _cancel_connections has begun, the error that propagates is the
\* one execute_nodes caught: it was caught as a fail-fast abort or an
\* interrupt, no step of the cancellation (with a backend that can cancel or
\* one that cannot) changes or clears it, a fail-fast abort names a node
\* whose Result is an error or a fail, and execute_nodes does not return.
C11_OriginalErrorLeaves ==
    [][cancel' # {} =>
          /\ pc = "except" \/ cancel # {}
          /\ exc.exc \in Cancelling
          /\ exc' = exc
          /\ exc.exc = "FailFastException" =>
                ran'[exc.node].status \in {"error", "fail"}
          /\ pc' \in {"pool_join", "raised"}
      ]_vars

\* C11 witness: a fail-fast abort has left execute_nodes through the bare
\* raise of a backend that cannot cancel
C11_Witness ==
    /\ pc = "raised"
    /\ "warning" \in cancel
    /\ exc.exc = "FailFastException"
    /\ ran[exc.node].status \in {"error", "fail"}

\* node n got its Result in this step
Returned(n) == ran'[n] # ran[n]

\* C12: when call_runner returns the Result of a node, the cell becomes the
\* fail-fast abort carrying that Result if fail-fast is on and the Result is
\* an error or a fail (also when raise_on_first_error() is on); otherwise
\* the runtime error of that Result if raise_on_first_error() is on and the
\* Result is an error; otherwise (success, skipped, a fail without
\* fail-fast) it keeps its value. No other step changes the cell.
C12_OneCheckByPriority ==
    [][/\ \A n \in Nodes : Returned(n) =>
             raise_next_tick' =
                 CASE fail_fast /\ ran'[n].status \in {"error", "fail"} ->
                          [exc |-> "FailFastException", node |-> n]
                   [] ~fail_fast /\ raise_first /\ ran'[n].status = "error" ->
                          [exc |-> "RuntimeException", node |-> n]
                   [] OTHER -> raise_next_tick
       /\ (\A n \in Nodes : ~Returned(n)) => raise_next_tick' = raise_next_tick
      ]_vars

\* C12 witness: both policies are on, a Result that is an error set the
\* fail-fast abort, and a later fail replaced it by its own
C12_Witness ==
    /\ fail_fast
    /\ raise_first
    /\ \E n, m \in Nodes :
          /\ ran[n].status = "error"
          /\ ran[m].status = "fail"
          /\ raise_next_tick = [exc |-> "FailFastException", node |-> m]

\* C13: once run_queue has entered its loop it ends: it returns with
\* mark_done called for every selected node, unless a fatal signal was set
\* or the run was interrupted or raised. This holds in both waiting modes,
\* join() and the polling of wait_until_something_was_done in fail-fast
\* mode, also when every node had completed before the wait began.
C13_RunQueueReturns ==
    (pc = "loop") ~>
        \/ pc = "returned" /\ \A n \in selected : marks[n] = 1
        \/ raise_next_tick # NoError
        \/ exc # NoError

\* C13 witness: a fail-fast run whose nodes all completed inline, before the
\* driver began to wait, has returned with every node marked done and no
\* fatal signal
C13_Witness ==
    /\ fail_fast
    /\ single_threaded
    /\ pc = "returned"
    /\ selected = Nodes
    /\ raise_next_tick = NoError
    /\ exc = NoError
    /\ \A n \in selected : marks[n] = 1

\* the positions of node_results that hold a Result of node n
ResultsOf(res, n) == {i \in 1..Len(res) : res[i].node = n}

\* C14: node_results changes only by the append of the Result of a
\* selected, non-ephemeral node that had none, in the step that completes
\* this node (its mark_done), so that it never holds two Results of a node
\* and is in completion order; when the run has returned it holds exactly
\* one Result, the one the runner returned, for every selected non-ephemeral
\* node, skipped nodes included.
C14_OneResultPerNode ==
    [][/\ \/ node_results' = node_results
          \/ \E n \in selected \ ephemeral :
                /\ ResultsOf(node_results, n) = {}
                /\ marks[n] = 0
                /\ marks'[n] = 1
                /\ node_results' = Append(node_results, ran'[n])
       /\ \A n \in Nodes : Cardinality(ResultsOf(node_results', n)) <= 1
       /\ pc' = "returned" =>
             \A n \in selected \ ephemeral :
                 \E i \in 1..Len(node_results') : node_results'[i] = ran'[n]
      ]_vars

\* C14 witness: a full run of the pool over three recorded nodes, one of
\* them skipped, whose Results are not in the order the nodes were pulled
C14_Witness ==
    /\ ~single_threaded
    /\ pc = "returned"
    /\ Len(node_results) = 3
    /\ \E i \in 1..3 : node_results[i].status = "skipped"
    /\ node_results[1].node = 2
    /\ \A n \in Nodes : Cardinality(ResultsOf(node_results, n)) = 1

\* C15: in a run of the pool, every step that changes node_results, the
\* Skip-Cause Map or the Deferred-Error Cell is a step of the completion
\* callback, which the result handler of the pool runs one at a time: no
\* step of a worker thread in call_runner and no step of the driver thread
\* writes one of the three.
C15_WrittenOnlyInCallback ==
    [][(/\ ~single_threaded
        /\ \/ node_results' # node_results
           \/ skipped_children' # skipped_children
           \/ raise_next_tick' # raise_next_tick)
       => \E r \in finished : Callback(r)]_vars

\* C16: when an error leaves execute_nodes after _cancel_connections ran,
\* pool.join() has returned and no worker thread is still running a node,
\* whether the backend can cancel or not.
C16_JoinBeforeErrorLeaves ==
    (pc = "raised" /\ "terminate" \in cancel)
        => /\ "join" \in cancel
           /\ \A t \in pool : t.st # "running"

\* the runner submitted to the pool for node n in this step
SubmittedFor(n) == {t \in pool' \ pool : t.node = n}

\* C17: the k-th non-ephemeral node pulled from the queue, skipped or not,
\* gets index k and total num_nodes: run_count goes up by one, to the number
\* of non-ephemeral nodes pulled so far, which is at least 1, at most
\* num_nodes and greater than the index of every runner submitted before.
\* An ephemeral node gets index 0 and total 0 and leaves run_count alone,
\* and nothing else changes run_count.
C17_IndexIncreases ==
    [][/\ \A n \in (dispatched' \ dispatched) \ ephemeral :
             /\ run_count' = run_count + 1
             /\ run_count' = Cardinality(dispatched' \ ephemeral)
             /\ run_count' >= 1
             /\ run_count' <= num_nodes
             /\ ~single_threaded =>
                   /\ SubmittedFor(n) # {}
                   /\ \A t \in SubmittedFor(n) :
                         /\ t.index = run_count'
                         /\ t.total = num_nodes
                         /\ \A u \in pool : u.index < t.index
       /\ \A n \in (dispatched' \ dispatched) \cap ephemeral :
             /\ run_count' = run_count
             /\ ~single_threaded =>
                   /\ SubmittedFor(n) # {}
                   /\ \A t \in SubmittedFor(n) : t.index = 0 /\ t.total = 0
       /\ dispatched' = dispatched => run_count' = run_count
      ]_vars

\* C17 witness: an ephemeral node was pulled and a skipped runner holds an
\* index of 2 or more
C17_Witness ==
    /\ dispatched \cap ephemeral # {}
    /\ \E t \in pool : t.skip /\ t.index >= 2 /\ t.total = num_nodes

\* the driver is in before_run or has not reached it
BeforeExecuteNodes == pc \in {"new", "before_run", "list_schemas", "create_wait"}

\* C18: a create_schema is submitted only when every list_schemas future
\* has completed without error, and only inside create_schemas; a node is
\* pulled or dispatched only after create_schemas has returned, which it
\* does from the wait for the create futures only, without error; an error
\* of a listing or of a creation leaves at once, with no creation submitted
\* after a listing error and no node ever pulled or dispatched.
C18_ListThenCreateThenRun ==
    [][/\ created' # created /\ created' # <<>> =>
             /\ pc = "list_schemas"
             /\ RequiredDatabases(required) \subseteq listed
             /\ exc = NoError
       /\ BeforeExecuteNodes' => (dispatched' = {} /\ taken' = {} /\ pool' = {})
       /\ (BeforeExecuteNodes /\ ~BeforeExecuteNodes') =>
             \/ pc = "create_wait" /\ pc' = "run_queue" /\ exc' = NoError
             \/ pc' = "raised" /\ exc' # NoError
             \/ pc = "new" /\ pc' = "returned" /\ selected = {}
       /\ ~BeforeExecuteNodes => ~BeforeExecuteNodes'
       /\ exc'.exc = "ListError" => created' = <<>>
       /\ exc'.exc \in {"ListError", "CreateError"} =>
             /\ pc' = "raised"
             /\ dispatched' = {}
             /\ taken' = {}
      ]_vars

\* C18 witness: two databases were listed, two creations were submitted
\* after that and are being awaited, and no node was pulled
C18_Witness ==
    /\ pc = "create_wait"
    /\ Cardinality(listed) = 2
    /\ listed = RequiredDatabases(required)
    /\ Len(created) = 2
    /\ dispatched = {}
    /\ taken = {}

\* a node that mark_done was called for and whose Result sets the cell
FatalCompleted(n) == marks[n] > 0 /\ Fatal(ran[n])

\* C19: the cell is set by the time the Result of a node that sets it
\* reaches the callback, hence before mark_done of that node; the driver
\* therefore never passes a check (after get(), after a wake of the
\* fail-fast wait) once such a node has completed, and run_queue never
\* returns when the Result of some node set the cell.
C19_FatalSignalNotLost ==
    [][/\ \A r \in finished' : Fatal(r) => raise_next_tick' # NoError
       /\ \A n \in Nodes : FatalCompleted(n)' => raise_next_tick' # NoError
       /\ (pc = "got" /\ pc' = "checked") => \A n \in Nodes : ~FatalCompleted(n)
       /\ (pc = "loop" /\ pc' = "loop" /\ seen' # seen) =>
             \A n \in Nodes : ~FatalCompleted(n)
       /\ pc' = "returned" => \A n \in Nodes : ~Fatal(ran'[n])
      ]_vars

\* C19 witness: in a run of the pool without fail-fast every node has
\* completed, one with an error under raise_on_first_error(), and the check
\* that follows join() has raised its error
C19_Witness ==
    /\ ~single_threaded
    /\ ~fail_fast
    /\ raise_first
    /\ selected = Nodes
    /\ \A n \in selected : marks[n] = 1
    /\ pc = "raised"
    /\ exc.exc = "RuntimeException"
    /\ FatalCompleted(exc.node)

\* C20: run_queue called while job_queue is None raises InternalException
\* at once: the step that raises it changes none of node_results, the
\* Skip-Cause Map, the cell and run_count, InternalException is raised in no
\* other case, and while job_queue is None the loop is never entered and no
\* node is pulled, submitted or dispatched.
C20_NoQueueIsInternalError ==
    [][/\ (exc' # exc /\ exc'.exc = "InternalException") =>
             /\ ~job_queue
             /\ pc' = "raised"
             /\ UNCHANGED <<node_results, skipped_children, raise_next_tick,
                            run_count>>
       /\ ~job_queue' =>
             /\ pc' \in {"new", "raised"}
             /\ taken' = {}
             /\ dispatched' = {}
             /\ pool' = {}
             /\ pc' = "raised" => exc'.exc = "InternalException"
      ]_vars

\* C20 witness: run_queue has raised InternalException on an object whose
\* job_queue is None; nothing was pulled and the fields are as constructed
C20_Witness ==
    /\ ~job_queue
    /\ pc = "raised"
    /\ exc.exc = "InternalException"
    /\ selected # {}
    /\ taken = {}
    /\ dispatched = {}
    /\ node_results = <<>>
    /\ skipped_children = <<>>
    /\ raise_next_tick = NoError
    /\ run_count = 0

====
